---- MODULE Spec2Model ----
(***************************************************************************)
(* A model of the storeman Telegram file-dump bot (src/main.py).           *)
(*                                                                         *)
(*   - the token codec (encode_token / decode_token / generate_token /     *)
(*     parse_token), computed character by character: JSON text, UTF-8     *)
(*     bytes and URL-safe base64;                                          *)
(*   - the subscription gate (is_user_subscribed,                          *)
(*     check_force_subscriptions, join_button);                            *)
(*   - the retrieval workflow (start_command, callback_handler);           *)
(*   - the dump workflow and the media-group batcher                       *)
(*     (process_file_messages, process_media_group).                       *)
(*                                                                         *)
(* Text is a sequence of code points, bytes are a sequence of 0..255.      *)
(* A Python value is a tagged record [k |-> tag, v |-> payload].           *)
(***************************************************************************)
EXTENDS Integers, Sequences, FiniteSets, TLC

(***************************************************************************)
(* Characters                                                              *)
(***************************************************************************)

\* The printable ASCII characters, code points 32..126 in order (code point
\* 96 is given by name).
AsciiTable ==
    << " ", "!", "\"", "#", "$", "%", "&", "'", "(", ")", "*", "+", ",", "-", ".", "/",
       "0", "1", "2", "3", "4", "5", "6", "7", "8", "9", ":", ";", "<", "=", ">", "?",
       "@", "A", "B", "C", "D", "E", "F", "G", "H", "I", "J", "K", "L", "M", "N", "O",
       "P", "Q", "R", "S", "T", "U", "V", "W", "X", "Y", "Z", "[", "\\", "]", "^", "_",
       "grave", "a", "b", "c", "d", "e", "f", "g", "h", "i", "j", "k", "l", "m", "n", "o",
       "p", "q", "r", "s", "t", "u", "v", "w", "x", "y", "z", "{", "|", "}", "~" >>

\* Code point of a printable ASCII character.
Ord(c) == 31 + (CHOOSE i \in 1..Len(AsciiTable) : AsciiTable[i] = c)

\* A literal, written as a tuple of characters, as text.
Codes(s) == [i \in 1..Len(s) |-> Ord(s[i])]

RECURSIVE Concat(_)
\* The concatenation of a sequence of sequences.
Concat(ss) == IF ss = << >> THEN << >> ELSE Head(ss) \o Concat(Tail(ss))

(***************************************************************************)
(* Python values                                                           *)
(***************************************************************************)

PyNone == [k |-> "null", v |-> 0]
PyBool(b) == [k |-> "bool", v |-> b]
PyInt(n) == [k |-> "int", v |-> n]
\* An integer beyond the range the model computes with; only its type and
\* truth value are kept.
PyBigInt == [k |-> "bigint", v |-> 0]
\* A float; only whether it is zero is kept.
PyFloat(isZero) == [k |-> "float", v |-> isZero]
PyStr(s) == [k |-> "str", v |-> s]
PyList(xs) == [k |-> "list", v |-> xs]
\* A dict, as its (key text, value) pairs in insertion order, keys distinct.
PyDict(ps) == [k |-> "dict", v |-> ps]

\* d[key] = val on a dict's pairs: an existing key keeps its place.
DictSet(ps, key, val) ==
    IF \E i \in 1..Len(ps) : ps[i][1] = key
    THEN [i \in 1..Len(ps) |-> IF ps[i][1] = key THEN <<key, val>> ELSE ps[i]]
    ELSE Append(ps, <<key, val>>)

DictHas(ps, key) == \E i \in 1..Len(ps) : ps[i][1] = key

DictGet(ps, key) == ps[CHOOSE i \in 1..Len(ps) : ps[i][1] = key][2]

\* Python's truth value of a value (the operand of `not`).
Truthy(x) ==
    CASE x.k = "null" -> FALSE
      [] x.k = "bool" -> x.v
      [] x.k = "int" -> x.v # 0
      [] x.k = "bigint" -> TRUE
      [] x.k = "float" -> ~x.v
      [] OTHER -> Len(x.v) > 0

(***************************************************************************)
(* json.dumps (default separators ", " and ": ", ensure_ascii)             *)
(***************************************************************************)

RECURSIVE DecimalDigits(_)
\* The decimal digits of a natural number, as text.
DecimalDigits(n) ==
    IF n < 10 THEN << Ord("0") + n >>
    ELSE Append(DecimalDigits(n \div 10), Ord("0") + (n % 10))

DumpInt(n) == IF n < 0 THEN << Ord("-") >> \o DecimalDigits(-n) ELSE DecimalDigits(n)

\* One lower-case hexadecimal digit.
HexDigit(d) == IF d < 10 THEN Ord("0") + d ELSE Ord("a") + (d - 10)

\* One character of a string as json.dumps writes it.
DumpChar(c) ==
    CASE c = Ord("\"") -> Codes(<< "\\", "\"" >>)
      [] c = Ord("\\") -> Codes(<< "\\", "\\" >>)
      [] c = 10 -> Codes(<< "\\", "n" >>)
      [] c = 13 -> Codes(<< "\\", "r" >>)
      [] c = 9 -> Codes(<< "\\", "t" >>)
      [] c = 8 -> Codes(<< "\\", "b" >>)
      [] c = 12 -> Codes(<< "\\", "f" >>)
      [] c >= 32 /\ c <= 126 -> << c >>
      [] OTHER -> Codes(<< "\\", "u" >>)
                  \o << HexDigit((c \div 4096) % 16), HexDigit((c \div 256) % 16),
                        HexDigit((c \div 16) % 16), HexDigit(c % 16) >>

DumpStr(s) ==
    << Ord("\"") >> \o Concat([i \in 1..Len(s) |-> DumpChar(s[i])]) \o << Ord("\"") >>

RECURSIVE JoinWith(_, _)
\* The texts of `parts` with `sep` between them.
JoinWith(parts, sep) ==
    IF parts = << >> THEN << >>
    ELSE IF Len(parts) = 1 THEN parts[1]
    ELSE parts[1] \o sep \o JoinWith(Tail(parts), sep)

RECURSIVE json_dumps(_)
\* json.dumps(x) for the values the program serialises.
json_dumps(x) ==
    CASE x.k = "null" -> Codes(<< "n", "u", "l", "l" >>)
      [] x.k = "bool" -> IF x.v THEN Codes(<< "t", "r", "u", "e" >>)
                         ELSE Codes(<< "f", "a", "l", "s", "e" >>)
      [] x.k = "int" -> DumpInt(x.v)
      [] x.k = "str" -> DumpStr(x.v)
      [] x.k = "list" ->
            << Ord("[") >>
            \o JoinWith([i \in 1..Len(x.v) |-> json_dumps(x.v[i])], Codes(<< ",", " " >>))
            \o << Ord("]") >>
      [] x.k = "dict" ->
            << Ord("{") >>
            \o JoinWith([i \in 1..Len(x.v) |->
                            DumpStr(x.v[i][1]) \o Codes(<< ":", " " >>) \o json_dumps(x.v[i][2])],
                        Codes(<< ",", " " >>))
            \o << Ord("}") >>

(***************************************************************************)
(* UTF-8                                                                   *)
(***************************************************************************)

\* str.encode("utf-8") of one code point.
Utf8EncodeChar(c) ==
    CASE c < 128 -> << c >>
      [] c >= 128 /\ c < 2048 -> << 192 + (c \div 64), 128 + (c % 64) >>
      [] c >= 2048 /\ c < 65536 ->
            << 224 + (c \div 4096), 128 + ((c \div 64) % 64), 128 + (c % 64) >>
      [] OTHER ->
            << 240 + (c \div 262144), 128 + ((c \div 4096) % 64),
               128 + ((c \div 64) % 64), 128 + (c % 64) >>

\* str.encode("utf-8").
Utf8Encode(s) == Concat([i \in 1..Len(s) |-> Utf8EncodeChar(s[i])])

IsCont(b) == b >= 128 /\ b <= 191

RECURSIVE Utf8DecodeFrom(_, _, _)
\* bytes.decode("utf-8") from byte i on, with the code points decoded so far.
\* [ok |-> FALSE] is UnicodeDecodeError (strict: no overlong forms, no
\* surrogates, nothing above U+10FFFF).
Utf8DecodeFrom(bs, i, acc) ==
    IF i > Len(bs) THEN [ok |-> TRUE, text |-> acc]
    ELSE LET b == bs[i]
             n == Len(bs)
             bad == [ok |-> FALSE, text |-> << >>]
         IN  CASE b < 128 -> Utf8DecodeFrom(bs, i + 1, Append(acc, b))
               [] b >= 194 /\ b <= 223 ->
                    IF i + 1 <= n /\ IsCont(bs[i + 1])
                    THEN Utf8DecodeFrom(bs, i + 2,
                                        Append(acc, (b - 192) * 64 + (bs[i + 1] - 128)))
                    ELSE bad
               [] b >= 224 /\ b <= 239 ->
                    IF /\ i + 2 <= n
                       /\ IsCont(bs[i + 1])
                       /\ IsCont(bs[i + 2])
                       /\ (b = 224 => bs[i + 1] >= 160)
                       /\ (b = 237 => bs[i + 1] <= 159)
                    THEN Utf8DecodeFrom(bs, i + 3,
                            Append(acc, (b - 224) * 4096 + (bs[i + 1] - 128) * 64
                                        + (bs[i + 2] - 128)))
                    ELSE bad
               [] b >= 240 /\ b <= 244 ->
                    IF /\ i + 3 <= n
                       /\ IsCont(bs[i + 1])
                       /\ IsCont(bs[i + 2])
                       /\ IsCont(bs[i + 3])
                       /\ (b = 240 => bs[i + 1] >= 144)
                       /\ (b = 244 => bs[i + 1] <= 143)
                    THEN Utf8DecodeFrom(bs, i + 4,
                            Append(acc, (b - 240) * 262144 + (bs[i + 1] - 128) * 4096
                                        + (bs[i + 2] - 128) * 64 + (bs[i + 3] - 128)))
                    ELSE bad
               [] OTHER -> bad

Utf8Decode(bs) == Utf8DecodeFrom(bs, 1, << >>)

(***************************************************************************)
(* URL-safe base64                                                         *)
(***************************************************************************)

\* The URL-safe alphabet: the character of each 6-bit value, 0..63 in order.
UrlsafeAlphabet ==
    Codes(<< "A", "B", "C", "D", "E", "F", "G", "H", "I", "J", "K", "L", "M", "N", "O", "P",
             "Q", "R", "S", "T", "U", "V", "W", "X", "Y", "Z", "a", "b", "c", "d", "e", "f",
             "g", "h", "i", "j", "k", "l", "m", "n", "o", "p", "q", "r", "s", "t", "u", "v",
             "w", "x", "y", "z", "0", "1", "2", "3", "4", "5", "6", "7", "8", "9", "-", "_" >>)

B64Char(v) == UrlsafeAlphabet[v + 1]

RECURSIVE B64EncodeFrom(_, _)
\* The encoding of the bytes from byte i on: three bytes make four characters,
\* a last group of one or two bytes is padded with "=".
B64EncodeFrom(bs, i) ==
    LET n == Len(bs) - i + 1
        pad == Ord("=")
    IN  CASE n <= 0 -> << >>
          [] n = 1 -> << B64Char(bs[i] \div 4), B64Char((bs[i] % 4) * 16), pad, pad >>
          [] n = 2 -> << B64Char(bs[i] \div 4),
                         B64Char((bs[i] % 4) * 16 + (bs[i + 1] \div 16)),
                         B64Char((bs[i + 1] % 16) * 4), pad >>
          [] OTHER -> << B64Char(bs[i] \div 4),
                         B64Char((bs[i] % 4) * 16 + (bs[i + 1] \div 16)),
                         B64Char((bs[i + 1] % 16) * 4 + (bs[i + 2] \div 64)),
                         B64Char(bs[i + 2] % 64) >>
                      \o B64EncodeFrom(bs, i + 3)

\* base64.urlsafe_b64encode(bs), as the ASCII text of its result.
urlsafe_b64encode(bs) == B64EncodeFrom(bs, 1)

\* The 6-bit value of a character for urlsafe_b64decode: "-" and "_" are first
\* translated to "+" and "/", which the standard table also holds; 64 for a
\* character outside the alphabet.
B64Value(c) ==
    CASE c >= Ord("A") /\ c <= Ord("Z") -> c - Ord("A")
      [] c >= Ord("a") /\ c <= Ord("z") -> c - Ord("a") + 26
      [] c >= Ord("0") /\ c <= Ord("9") -> c - Ord("0") + 52
      [] c = Ord("+") \/ c = Ord("-") -> 62
      [] c = Ord("/") \/ c = Ord("_") -> 63
      [] OTHER -> 64

RECURSIVE B64DecodeFrom(_, _, _, _, _, _)

\* One character of the alphabet, of value v, shifted in: the second, third
\* and fourth of a quad each complete a byte.
B64Sextet(cs, i, quad_pos, leftchar, out, v) ==
    CASE quad_pos = 0 -> B64DecodeFrom(cs, i + 1, 1, v, 0, out)
      [] quad_pos = 1 ->
            B64DecodeFrom(cs, i + 1, 2, v % 16, 0, Append(out, leftchar * 4 + (v \div 16)))
      [] quad_pos = 2 ->
            B64DecodeFrom(cs, i + 1, 3, v % 4, 0, Append(out, leftchar * 16 + (v \div 4)))
      [] OTHER -> B64DecodeFrom(cs, i + 1, 0, 0, 0, Append(out, leftchar * 64 + v))

\* binascii.a2b_base64 in its default (non-strict) mode from byte i on:
\* characters outside the alphabet are skipped; a completed pad sequence ends
\* the input; [ok |-> FALSE] is binascii.Error (a quad left incomplete).
B64DecodeFrom(cs, i, quad_pos, leftchar, pads, out) ==
    IF i > Len(cs)
    THEN [ok |-> quad_pos = 0, bytes |-> out]
    ELSE IF cs[i] = Ord("=")
    THEN IF quad_pos >= 2 /\ quad_pos + pads + 1 >= 4
         THEN [ok |-> TRUE, bytes |-> out]
         ELSE B64DecodeFrom(cs, i + 1, quad_pos, leftchar,
                            IF quad_pos >= 2 THEN pads + 1 ELSE pads, out)
    ELSE IF B64Value(cs[i]) >= 64
    THEN B64DecodeFrom(cs, i + 1, quad_pos, leftchar, pads, out)
    ELSE B64Sextet(cs, i, quad_pos, leftchar, out, B64Value(cs[i]))

\* base64.urlsafe_b64decode(cs) of the bytes cs.
urlsafe_b64decode(cs) == B64DecodeFrom(cs, 1, 0, 0, 0, << >>)

(***************************************************************************)
(* json.loads                                                              *)
(***************************************************************************)

\* A failed scan (JSONDecodeError).
JsonFail == [ok |-> FALSE, val |-> PyNone, end |-> 0]

JsonOk(x, e) == [ok |-> TRUE, val |-> x, end |-> e]

IsDigit(c) == c >= Ord("0") /\ c <= Ord("9")

IsHex(c) ==
    \/ IsDigit(c)
    \/ (c >= Ord("a") /\ c <= Ord("f"))
    \/ (c >= Ord("A") /\ c <= Ord("F"))

HexValue(c) ==
    CASE IsDigit(c) -> c - Ord("0")
      [] c >= Ord("a") /\ c <= Ord("f") -> c - Ord("a") + 10
      [] OTHER -> c - Ord("A") + 10

RECURSIVE SkipWs(_, _)
\* The first index from i on that holds no JSON whitespace.
SkipWs(s, i) ==
    IF i <= Len(s) /\ s[i] \in {32, 9, 10, 13} THEN SkipWs(s, i + 1) ELSE i

\* Whether the literal `word` stands at index i of s.
HasWord(s, i, word) ==
    /\ i + Len(word) - 1 <= Len(s)
    /\ \A j \in 1..Len(word) : s[i + j - 1] = word[j]

RECURSIVE DigitsEnd(_, _)
\* The first index from i on that holds no digit.
DigitsEnd(s, i) == IF i <= Len(s) /\ IsDigit(s[i]) THEN DigitsEnd(s, i + 1) ELSE i

RECURSIVE DigitsValue(_, _, _)
\* The number written by the digits s[i..j-1].
DigitsValue(s, i, j) ==
    IF i >= j THEN 0 ELSE DigitsValue(s, i, j - 1) * 10 + (s[j - 1] - Ord("0"))

\* The end of a number once its parts are known: a float when it has a
\* fraction or an exponent, an integer otherwise.
NumberValue(s, neg, d0, intEnd, fracEnd, expEnd) ==
    IF fracEnd > intEnd \/ expEnd > fracEnd
    THEN JsonOk(PyFloat(\A j \in d0..(fracEnd - 1) : s[j] \in {Ord("0"), Ord(".")}), expEnd)
    ELSE IF intEnd - d0 > 9 THEN JsonOk(PyBigInt, intEnd)
    ELSE JsonOk(PyInt(IF neg THEN 0 - DigitsValue(s, d0, intEnd)
                      ELSE DigitsValue(s, d0, intEnd)), intEnd)

\* The exponent ([eE][-+]?[0-9]+)? at index fracEnd, whose digits would start
\* at index e0.
NumberExp(s, neg, d0, intEnd, fracEnd, e0) ==
    NumberValue(s, neg, d0, intEnd, fracEnd,
                IF /\ fracEnd <= Len(s)
                   /\ s[fracEnd] \in {Ord("e"), Ord("E")}
                   /\ e0 <= Len(s)
                   /\ IsDigit(s[e0])
                THEN DigitsEnd(s, e0) ELSE fracEnd)

\* The exponent's optional sign.
NumberSign(s, neg, d0, intEnd, fracEnd) ==
    NumberExp(s, neg, d0, intEnd, fracEnd,
              IF /\ fracEnd + 1 <= Len(s)
                 /\ s[fracEnd] \in {Ord("e"), Ord("E")}
                 /\ s[fracEnd + 1] \in {Ord("+"), Ord("-")}
              THEN fracEnd + 2 ELSE fracEnd + 1)

\* The fraction (\.[0-9]+)? at index intEnd.
NumberFrac(s, neg, d0, intEnd) ==
    IF intEnd = d0 THEN JsonFail
    ELSE NumberSign(s, neg, d0, intEnd,
                    IF /\ intEnd + 1 <= Len(s)
                       /\ s[intEnd] = Ord(".")
                       /\ IsDigit(s[intEnd + 1])
                    THEN DigitsEnd(s, intEnd + 1) ELSE intEnd)

\* The integer part (0|[1-9][0-9]*) at index d0.
NumberInt(s, neg, d0) ==
    NumberFrac(s, neg, d0,
               IF d0 <= Len(s) /\ s[d0] = Ord("0") THEN d0 + 1 ELSE DigitsEnd(s, d0))

\* The longest number at index i: -?(0|[1-9][0-9]*)(\.[0-9]+)?([eE][-+]?[0-9]+)?
ScanNumber(s, i) ==
    IF i <= Len(s) /\ s[i] = Ord("-") THEN NumberInt(s, TRUE, i + 1)
    ELSE NumberInt(s, FALSE, i)

\* The character a one-letter escape stands for; 0 when it is no escape.
EscapeChar(c) ==
    CASE c = Ord("\"") -> Ord("\"")
      [] c = Ord("\\") -> Ord("\\")
      [] c = Ord("/") -> Ord("/")
      [] c = Ord("b") -> 8
      [] c = Ord("f") -> 12
      [] c = Ord("n") -> 10
      [] c = Ord("r") -> 13
      [] c = Ord("t") -> 9
      [] OTHER -> 0

\* Whether \uXXXX stands at index i (the backslash) of s.
HasU(s, i) ==
    /\ i + 5 <= Len(s)
    /\ s[i] = Ord("\\")
    /\ s[i + 1] = Ord("u")
    /\ \A j \in 2..5 : IsHex(s[i + j])

UValue(s, i) ==
    HexValue(s[i + 2]) * 4096 + HexValue(s[i + 3]) * 256
    + HexValue(s[i + 4]) * 16 + HexValue(s[i + 5])

\* Whether a high surrogate \uD800..\uDBFF stands at index i, followed by a
\* low surrogate \uDC00..\uDFFF.
IsSurrogatePair(s, i) ==
    /\ UValue(s, i) >= 55296
    /\ UValue(s, i) <= 56319
    /\ HasU(s, i + 6)
    /\ UValue(s, i + 6) >= 56320
    /\ UValue(s, i + 6) <= 57343

\* The code point a surrogate pair at index i stands for.
PairValue(s, i) == 65536 + (UValue(s, i) - 55296) * 1024 + (UValue(s, i + 6) - 56320)

RECURSIVE ScanString(_, _, _)
\* scanstring (strict): the string whose opening quote stands before index i,
\* with the characters read so far.
ScanString(s, i, acc) ==
    IF i > Len(s) THEN JsonFail
    ELSE CASE s[i] = Ord("\"") -> JsonOk(PyStr(acc), i + 1)
           [] s[i] < 32 -> JsonFail
           [] s[i] = Ord("\\") ->
                IF i + 1 > Len(s) THEN JsonFail
                ELSE IF s[i + 1] = Ord("u")
                THEN IF ~HasU(s, i) THEN JsonFail
                     ELSE IF IsSurrogatePair(s, i)
                     THEN ScanString(s, i + 12, Append(acc, PairValue(s, i)))
                     ELSE ScanString(s, i + 6, Append(acc, UValue(s, i)))
                ELSE IF EscapeChar(s[i + 1]) = 0 THEN JsonFail
                ELSE ScanString(s, i + 2, Append(acc, EscapeChar(s[i + 1])))
           [] OTHER -> ScanString(s, i + 1, Append(acc, s[i]))

RECURSIVE ScanOnce(_, _)
RECURSIVE ScanArray(_, _, _)
RECURSIVE ScanObject(_, _, _)

\* An object or array whose opening bracket has been read, at index j (past
\* the whitespace): empty when the closing bracket stands there.
ScanOpened(s, j, isObject) ==
    IF isObject
    THEN IF j <= Len(s) /\ s[j] = Ord("}") THEN JsonOk(PyDict(<< >>), j + 1)
         ELSE ScanObject(s, j, << >>)
    ELSE IF j <= Len(s) /\ s[j] = Ord("]") THEN JsonOk(PyList(<< >>), j + 1)
         ELSE ScanArray(s, j, << >>)

\* A literal word at index i, with the value it stands for.
ScanWord(s, i, word, x) ==
    IF HasWord(s, i, word) THEN JsonOk(x, i + Len(word)) ELSE JsonFail

\* scan_once: the value that starts at index i.
ScanOnce(s, i) ==
    IF i > Len(s) THEN JsonFail
    ELSE CASE s[i] = Ord("\"") -> ScanString(s, i + 1, << >>)
           [] s[i] = Ord("{") -> ScanOpened(s, SkipWs(s, i + 1), TRUE)
           [] s[i] = Ord("[") -> ScanOpened(s, SkipWs(s, i + 1), FALSE)
           [] s[i] = Ord("n") -> ScanWord(s, i, Codes(<< "n", "u", "l", "l" >>), PyNone)
           [] s[i] = Ord("t") -> ScanWord(s, i, Codes(<< "t", "r", "u", "e" >>), PyBool(TRUE))
           [] s[i] = Ord("f") ->
                ScanWord(s, i, Codes(<< "f", "a", "l", "s", "e" >>), PyBool(FALSE))
           [] s[i] = Ord("N") -> ScanWord(s, i, Codes(<< "N", "a", "N" >>), PyFloat(FALSE))
           [] s[i] = Ord("I") ->
                ScanWord(s, i, Codes(<< "I", "n", "f", "i", "n", "i", "t", "y" >>),
                         PyFloat(FALSE))
           [] s[i] = Ord("-") /\ i < Len(s) /\ s[i + 1] = Ord("I") ->
                ScanWord(s, i, Codes(<< "-", "I", "n", "f", "i", "n", "i", "t", "y" >>),
                         PyFloat(FALSE))
           [] OTHER -> ScanNumber(s, i)

\* After an array item, at index j (past the whitespace): the closing
\* bracket, or a comma and the next item.
ArrayNext(s, j, items) ==
    IF j > Len(s) THEN JsonFail
    ELSE IF s[j] = Ord("]") THEN JsonOk(PyList(items), j + 1)
    ELSE IF s[j] = Ord(",") THEN ScanArray(s, SkipWs(s, j + 1), items)
    ELSE JsonFail

ArrayItem(s, item, acc) ==
    IF ~item.ok THEN JsonFail
    ELSE ArrayNext(s, SkipWs(s, item.end), Append(acc, item.val))

\* The items of an array from index i (an item must start there), with the
\* items read so far.
ScanArray(s, i, acc) == ArrayItem(s, ScanOnce(s, i), acc)

\* After an object's pair, at index j (past the whitespace): the closing
\* brace, or a comma and the next pair.
ObjectNext(s, j, pairs) ==
    IF j > Len(s) THEN JsonFail
    ELSE IF s[j] = Ord("}") THEN JsonOk(PyDict(pairs), j + 1)
    ELSE IF s[j] = Ord(",") THEN ScanObject(s, SkipWs(s, j + 1), pairs)
    ELSE JsonFail

\* A repeated key keeps its last value.
ObjectItem(s, key, item, acc) ==
    IF ~item.ok THEN JsonFail
    ELSE ObjectNext(s, SkipWs(s, item.end), DictSet(acc, key, item.val))

\* The colon after a key, at index c (past the whitespace), and the value.
ObjectColon(s, key, c, acc) ==
    IF c > Len(s) \/ s[c] # Ord(":") THEN JsonFail
    ELSE ObjectItem(s, key, ScanOnce(s, SkipWs(s, c + 1)), acc)

ObjectKey(s, key, acc) ==
    IF ~key.ok THEN JsonFail
    ELSE ObjectColon(s, key.val.v, SkipWs(s, key.end), acc)

\* The pairs of an object from index i (a key must start there), with the
\* pairs read so far.
ScanObject(s, i, acc) ==
    IF i > Len(s) \/ s[i] # Ord("\"") THEN JsonFail
    ELSE ObjectKey(s, ScanString(s, i + 1, << >>), acc)

\* The value json.loads read, if nothing but whitespace follows it.
WholeText(s, x) ==
    IF ~x.ok THEN JsonFail
    ELSE IF SkipWs(s, x.end) # Len(s) + 1 THEN JsonFail
    ELSE x

\* json.loads(s): one value with whitespace around it and nothing else;
\* [ok |-> FALSE] is JSONDecodeError.
json_loads(s) ==
    IF Len(s) > 0 /\ s[1] = 65279 THEN JsonFail
    ELSE WholeText(s, ScanOnce(s, SkipWs(s, 1)))

(***************************************************************************)
(* The token codec                                                         *)
(***************************************************************************)

\* encode_token, had it dropped the "=" padding of the base64 text.
encode_token_unpadded(data) ==
    SelectSeq(urlsafe_b64encode(Utf8Encode(json_dumps(data))), LAMBDA c : c # Ord("="))

\* encode_token(data)
encode_token(data) == urlsafe_b64encode(Utf8Encode(json_dumps(data)))

\* json.loads of the decoded text, when it decoded.
LoadText(text) ==
    IF text.ok THEN json_loads(text.text) ELSE JsonFail

\* The text of the decoded bytes, when they decoded.
DecodeBytes(raw) ==
    IF raw.ok THEN Utf8Decode(raw.bytes) ELSE [ok |-> FALSE, text |-> << >>]

\* The value decode_token returns for what json.loads did.
LoadedOrEmpty(x) == IF x.ok THEN x.val ELSE PyDict(<< >>)

\* decode_token(token): any exception of the decoding yields the empty dict.
decode_token(token) ==
    LoadedOrEmpty(LoadText(DecodeBytes(urlsafe_b64decode(Utf8Encode(token)))))

\* generate_token(file_type, msg_ids)
generate_token(file_type, msg_ids) ==
    encode_token(PyDict(<< << Codes(<< "t" >>), file_type >>,
                           << Codes(<< "i", "d", "s" >>), msg_ids >> >>))

\* Whether `sub` occurs in the text s.
IsSubstring(sub, s) ==
    \E i \in 1..(Len(s) - Len(sub) + 1) : \A j \in 1..Len(sub) : s[i + j - 1] = sub[j]

\* `key in data` for a text key: [raised |-> TRUE] is TypeError (the value is
\* no container).
PyContains(key, data) ==
    CASE data.k = "dict" -> [raised |-> FALSE, res |-> DictHas(data.v, key)]
      [] data.k = "list" ->
            [raised |-> FALSE,
             res |-> \E i \in 1..Len(data.v) :
                        data.v[i].k = "str" /\ data.v[i].v = key]
      [] data.k = "str" -> [raised |-> FALSE, res |-> IsSubstring(key, data.v)]
      [] OTHER -> [raised |-> TRUE, res |-> FALSE]

\* What parse_token hands back: a pair, or an exception that leaves it.
Returned(a, b) == [raised |-> FALSE, file_type |-> a, msg_ids |-> b]
Raised == [raised |-> TRUE, file_type |-> PyNone, msg_ids |-> PyNone]

\* The rest of parse_token, once `"t" in data` is known.
ParseIds(data, hasT, hasIds) ==
    IF hasT.raised THEN Raised
    ELSE IF ~hasT.res THEN Returned(PyNone, PyNone)
    ELSE IF hasIds.raised THEN Raised
    ELSE IF ~hasIds.res THEN Returned(PyNone, PyNone)
    ELSE IF data.k = "dict"
    THEN Returned(DictGet(data.v, Codes(<< "t" >>)),
                  DictGet(data.v, Codes(<< "i", "d", "s" >>)))
    ELSE Raised

\* parse_token's steps on the value decode_token returned.
ParseData(data) ==
    ParseIds(data, PyContains(Codes(<< "t" >>), data),
             PyContains(Codes(<< "i", "d", "s" >>), data))

\* parse_token(token)
parse_token(token) == ParseData(decode_token(token))

(***************************************************************************)
(* The subscription gate                                                   *)
(***************************************************************************)

\* The status values of a chat member (telegram.ChatMember).
Statuses == {"creator", "administrator", "member", "restricted", "left", "kicked"}

\* What bot.get_chat_member can do: hand back a member with a status, or raise.
LookupOutcomes ==
    [raised : {FALSE}, status : Statuses] \cup {[raised |-> TRUE, status |-> "none"]}

\* is_user_subscribed(user_id, channel), given what the lookup for that
\* channel does.
is_user_subscribed(outcome) ==
    IF outcome.raised THEN FALSE
    ELSE outcome.status \in {"member", "administrator", "creator"}

\* check_force_subscriptions, had it asked for either channel.
check_force_subscriptions_either(outcomes) ==
    is_user_subscribed(outcomes[1]) \/ is_user_subscribed(outcomes[2])

\* check_force_subscriptions(user_id), given what the lookups for the two
\* channels do.
check_force_subscriptions(outcomes) ==
    is_user_subscribed(outcomes[1]) /\ is_user_subscribed(outcomes[2])

\* join_button(channel_id), given whether export_chat_invite_link succeeds.
join_button(ch, ok) == IF ok THEN << "invite1", "invite2" >>[ch] ELSE "#"

(***************************************************************************)
(* State                                                                   *)
(***************************************************************************)

VARIABLES
    codec,      \* one run of the token codec: its input, the token, the result
    lookup,     \* what get_chat_member did for the requester on channels 1, 2
                \* in the request being handled
    req,        \* the retrieval request being handled
    chat,       \* the bot message in the requester's chat that may carry the
                \* join/retry keyboard
    handler,    \* process_file_messages, one run per upload message
    flush,      \* process_media_group, one run per timer started
    media_group_dict,   \* media group id -> the list object it maps to (0: no entry)
    lists,      \* the list objects created for media_group_dict
    dump,       \* the dump channel: the original message each copy was made of
    links,      \* the permanent links replied so far
    hook        \* the run of setup_webhook.py: set_webhook and its retries

codecVars == << codec >>
retrVars == << lookup, req, chat >>
dumpVars == << handler, flush, media_group_dict, lists, dump, links >>
hookVars == << hook >>
vars == << codec, lookup, req, chat, handler, flush, media_group_dict, lists, dump, links, hook >>

(***************************************************************************)
(* Bounds and inputs                                                       *)
(***************************************************************************)

\* The longest list of message identifiers put in a token.
MaxIds == 2

\* Message identifiers to build tokens from (one, two and three digits).
SampleIds == {7, 42, 305}

\* The non-empty sequences over S of length at most n.
SeqsUpTo(S, n) == UNION {[1..m -> S] : m \in 1..n}

\* The two kinds of a token, as generate_token's callers pass them.
KindSingle == PyStr(Codes(<< "s" >>))
KindBatch == PyStr(Codes(<< "b" >>))

IdList(ids) == PyList([i \in 1..Len(ids) |-> PyInt(ids[i])])

\* The (kind, ids) pairs the codec is run on.
PairInputs == {<<kind, ids>> : kind \in {"s", "b"}, ids \in SeqsUpTo(SampleIds, MaxIds)}

KindOf(kind) == IF kind = "s" THEN KindSingle ELSE KindBatch

\* The proper prefixes of a token.
Truncations(t) == {SubSeq(t, 1, n) : n \in 0..(Len(t) - 1)}

\* A token with one of its characters replaced by one outside the alphabet.
Substitutions(t) == {[t EXCEPT ![i] = Ord("!")] : i \in 1..Len(t)}

\* Values that serialise to valid JSON but are not a dict with both fields.
InnerValues ==
    << PyInt(5),
       PyNone,
       PyBool(TRUE),
       PyStr(Codes(<< "x" >>)),
       PyStr(Codes(<< "t", "i", "d", "s" >>)),
       PyList(<< PyInt(1) >>),
       PyList(<< PyStr(Codes(<< "t" >>)), PyStr(Codes(<< "i", "d", "s" >>)) >>),
       PyDict(<< >>),
       PyDict(<< << Codes(<< "t" >>), KindSingle >> >>),
       PyDict(<< << Codes(<< "i", "d", "s" >>), IdList(<< 7 >>) >> >>) >>

\* The strings handed to parse_token that generate_token did not produce:
\* truncated tokens, tokens with a character outside the alphabet, and valid
\* encodings of values without the required fields.
RawTokens ==
    Truncations(generate_token(KindSingle, IdList(<< 42 >>)))
    \cup Substitutions(generate_token(KindBatch, IdList(<< 7, 42 >>)))
    \cup {encode_token(InnerValues[i]) : i \in 1..Len(InnerValues)}

(***************************************************************************)
(* The codec, run on one input                                             *)
(***************************************************************************)

CodecOff ==
    [origin |-> "none", pc |-> "off", file_type |-> PyNone, msg_ids |-> PyNone,
     token |-> << >>, result |-> Returned(PyNone, PyNone)]

CodecInit ==
    codec \in
        {[CodecOff EXCEPT !.origin = "pair", !.pc = "new",
                          !.file_type = KindOf(p[1]), !.msg_ids = IdList(p[2])]
            : p \in PairInputs}
        \cup {[CodecOff EXCEPT !.origin = "raw", !.pc = "token", !.token = t]
                : t \in RawTokens}

\* token = generate_token(file_type, msg_ids)
Generate ==
    /\ codec.pc = "new"
    /\ codec' = [codec EXCEPT !.pc = "token",
                              !.token = generate_token(codec.file_type, codec.msg_ids)]
    /\ UNCHANGED << retrVars, dumpVars, hookVars >>

\* file_type, msg_ids = parse_token(token)
Parse ==
    /\ codec.pc = "token"
    /\ codec' = [codec EXCEPT !.pc = "parsed", !.result = parse_token(codec.token)]
    /\ UNCHANGED << retrVars, dumpVars, hookVars >>

(***************************************************************************)
(* The retrieval workflow: start_command and callback_handler              *)
(***************************************************************************)

RetryPrefix == Codes(<< "r", "e", "t", "r", "y", ":" >>)

\* str.startswith
StartsWith(s, pre) == Len(pre) <= Len(s) /\ SubSeq(s, 1, Len(pre)) = pre

\* The index of the first occurrence of sep in s, 0 when there is none.
Find(s, sep) ==
    LET at == {i \in 1..(Len(s) - Len(sep) + 1) : SubSeq(s, i, i + Len(sep) - 1) = sep}
    IN  IF at = {} THEN 0 ELSE CHOOSE i \in at : \A j \in at : i <= j

\* s.split(sep)[1], for an s that holds sep: what stands between the first
\* occurrence of sep and the next one (or the end).
SplitSecond(s, sep) ==
    LET rest == SubSeq(s, Find(s, sep) + Len(sep), Len(s))
        q == Find(rest, sep)
    IN  IF q = 0 THEN rest ELSE SubSeq(rest, 1, q - 1)

\* Whether `for mid in x` can iterate x.
Iterable(x) == x.k \in {"list", "str", "dict"}

\* The items `for mid in x` goes through.
IterItems(x) ==
    CASE x.k = "list" -> x.v
      [] x.k = "str" -> [i \in 1..Len(x.v) |-> PyStr(<< x.v[i] >>)]
      [] x.k = "dict" -> [i \in 1..Len(x.v) |-> PyStr(x.v[i][1])]
      [] OTHER -> << >>

\* An inline keyboard: two join buttons and a retry button, or none.
NoKeyboard == [shown |-> FALSE, join1 |-> "", join2 |-> "", retry |-> << >>]

NoResponse == [sent |-> FALSE, text |-> "", kb |-> NoKeyboard]

Response(text, kb) == [sent |-> TRUE, text |-> text, kb |-> kb]

\* No request in progress.
IdleReq ==
    [path |-> "none", pc |-> "idle", token |-> << >>, data |-> << >>,
     decoded |-> FALSE, file_type |-> PyNone, msg_ids |-> PyNone,
     classes |-> {}, gate |-> "unchecked", i |-> 0, sent |-> << >>,
     reports |-> 0, raised |-> FALSE, response |-> NoResponse]

\* The ids lists of the tokens requests carry: up to MaxIds identifiers, and
\* one list that names an identifier twice.
RequestIds ==
    {SubSeq(<< 7, 42, 305, 9 >>, 1, n) : n \in 1..MaxIds} \cup {<< 7, 7 >>}

\* A payload typed by hand that holds the text "retry:".  The decoder of
\* line 51 skips the colon; the rest is the base64 text of
\* {"t":"<U+B7B6F>","ids":[7]}.
TokenHoldingRetry ==
    Codes(<< "e", "y", "J", "0", "I", "j", "o", "i", "8", "r", "e", "t", "r", "y",
           ":", "I", "s", "I", "m", "l", "k", "c", "y", "I", "6", "W", "z", "d",
           "d", "f", "Q", "=", "=" >>)

\* The start payloads: tokens generate_token can produce (the one with no
\* identifiers among them) and strings it cannot.
RequestTokens ==
    {generate_token(KindSingle, IdList(<< 7 >>)), generate_token(KindSingle, IdList(<< >>))}
    \cup {generate_token(KindBatch, IdList(ids)) : ids \in RequestIds}
    \cup {encode_token(PyInt(5)),
          encode_token(PyDict(<< << Codes(<< "t" >>), KindSingle >>,
                                 << Codes(<< "i", "d", "s" >>), PyInt(5) >> >>)),
          encode_token(PyDict(<< << Codes(<< "t" >>), KindSingle >>,
                                 << Codes(<< "i", "d", "s" >>), PyStr(Codes(<< "a", "b" >>)) >> >>)),
          SubSeq(generate_token(KindSingle, IdList(<< 7 >>)), 1, 12),
          TokenHoldingRetry}

\* No lookup made yet.
NoLookup == [ch \in 1..2 |-> [raised |-> FALSE, status |-> "unasked"]]

RetrInit ==
    /\ lookup = NoLookup
    /\ req = IdleReq
    /\ chat = NoKeyboard

\* A /start message with a payload arrives (start_command, args non-empty).
StartCommand(t) ==
    /\ req.pc \in {"idle", "done"}
    /\ req' = [IdleReq EXCEPT !.path = "start", !.pc = "parse", !.token = t]
    /\ lookup' = NoLookup
    /\ UNCHANGED << codec, chat >>
    /\ UNCHANGED << dumpVars, hookVars >>

\* A /start message without payload: the welcome reply.
StartNoArgs(ok) ==
    /\ req.pc \in {"idle", "done"}
    /\ req' = [IdleReq EXCEPT !.path = "start", !.pc = "done", !.raised = ~ok,
                              !.response = IF ok THEN Response("welcome", NoKeyboard)
                                           ELSE NoResponse]
    /\ lookup' = NoLookup
    /\ UNCHANGED << codec, chat >>
    /\ UNCHANGED << dumpVars, hookVars >>

\* The requester presses the retry button of the keyboard in the chat.
RetryClick ==
    /\ req.pc \in {"idle", "done"}
    /\ chat.shown
    /\ req' = [IdleReq EXCEPT !.path = "retry", !.pc = "answer", !.data = chat.retry]
    /\ lookup' = NoLookup
    /\ UNCHANGED << codec, chat >>
    /\ UNCHANGED << dumpVars, hookVars >>

\* callback_handler up to the token: query.answer(), then the data is split.
CallbackAnswer(ok) ==
    /\ req.pc = "answer"
    /\ req' = IF ~ok THEN [req EXCEPT !.pc = "done", !.raised = TRUE]
              ELSE IF StartsWith(req.data, RetryPrefix)
              THEN [req EXCEPT !.pc = "parse", !.token = SplitSecond(req.data, RetryPrefix)]
              ELSE [req EXCEPT !.pc = "done"]
    /\ UNCHANGED << codec, lookup, chat >>
    /\ UNCHANGED << dumpVars, hookVars >>

\* file_type, msg_ids = parse_token(token), and the test that follows it.
ParseToken ==
    /\ req.pc = "parse"
    /\ LET r == parse_token(req.token)
       IN  req' = IF r.raised
                  THEN [req EXCEPT !.decoded = TRUE, !.pc = "done", !.raised = TRUE]
                  ELSE IF ~Truthy(r.file_type) \/ ~Truthy(r.msg_ids)
                  THEN [req EXCEPT !.decoded = TRUE, !.pc = "invalid",
                                   !.classes = @ \cup {"INVALID"}]
                  ELSE [req EXCEPT !.decoded = TRUE, !.pc = "gate",
                                   !.file_type = r.file_type, !.msg_ids = r.msg_ids]
    /\ UNCHANGED << codec, lookup, chat >>
    /\ UNCHANGED << dumpVars, hookVars >>

\* The invalid-link answer: a reply on the start path, an edit of the
\* keyboard message (which drops its keyboard) on the retry path.
InvalidReply(ok) ==
    /\ req.pc = "invalid"
    /\ req' = [req EXCEPT !.pc = "done", !.raised = ~ok,
                          !.response = IF ok THEN Response("invalid", NoKeyboard)
                                       ELSE NoResponse]
    /\ chat' = IF ok /\ req.path = "retry" THEN NoKeyboard ELSE chat
    /\ UNCHANGED << codec, lookup >>
    /\ UNCHANGED << dumpVars, hookVars >>

\* if not check_force_subscriptions(user_id), with what the membership lookups
\* for the two channels do at this moment.
GateCheck(outcomes) ==
    /\ req.pc = "gate"
    /\ lookup' = outcomes
    /\ req' = IF check_force_subscriptions(outcomes)
              THEN [req EXCEPT !.pc = "deliver", !.gate = "pass", !.i = 1,
                               !.classes = @ \cup {"ALLOWED"}]
              ELSE [req EXCEPT !.pc = "blocked", !.gate = "fail",
                               !.classes = @ \cup {"BLOCKED"}]
    /\ UNCHANGED << codec, chat >>
    /\ UNCHANGED << dumpVars, hookVars >>

\* The keyboard start_command builds for a blocked requester.
JoinKeyboard(token, ok1, ok2) ==
    [shown |-> TRUE, join1 |-> join_button(1, ok1), join2 |-> join_button(2, ok2),
     retry |-> RetryPrefix \o token]

\* The blocked answer. start_command replies with the join/retry keyboard;
\* callback_handler edits the keyboard message to a text, with no markup.
BlockedReply(ok1, ok2, ok) ==
    /\ req.pc = "blocked"
    /\ LET kb == IF req.path = "start" THEN JoinKeyboard(req.token, ok1, ok2)
                 ELSE NoKeyboard
       IN  /\ req' = [req EXCEPT !.pc = "done", !.raised = ~ok,
                                 !.response = IF ok THEN Response("join", kb)
                                              ELSE NoResponse]
           /\ chat' = IF ok THEN kb ELSE chat
    /\ UNCHANGED << codec, lookup >>
    /\ UNCHANGED << dumpVars, hookVars >>

\* One round of `for mid in msg_ids`: the copy to the requester's chat, and on
\* its failure the inline error reply (whose own failure leaves the handler).
DeliverCopy(ok, rok) ==
    /\ req.pc = "deliver"
    /\ Iterable(req.msg_ids)
    /\ req.i <= Len(IterItems(req.msg_ids))
    /\ LET mid == IterItems(req.msg_ids)[req.i]
           tried == Append(req.sent, [mid |-> mid, ok |-> ok])
       IN  req' = IF ok THEN [req EXCEPT !.sent = tried, !.i = @ + 1]
                  ELSE IF rok
                  THEN [req EXCEPT !.sent = tried, !.i = @ + 1, !.reports = @ + 1]
                  ELSE [req EXCEPT !.sent = tried, !.pc = "done", !.raised = TRUE]
    /\ UNCHANGED << codec, lookup, chat >>
    /\ UNCHANGED << dumpVars, hookVars >>

\* The loop is over (or msg_ids cannot be iterated: TypeError). callback_handler
\* then edits the keyboard message to "Files sent. Enjoy!".
DeliverEnd(ok) ==
    /\ req.pc = "deliver"
    /\ Iterable(req.msg_ids) => req.i > Len(IterItems(req.msg_ids))
    /\ req' = IF ~Iterable(req.msg_ids) THEN [req EXCEPT !.pc = "done", !.raised = TRUE]
              ELSE IF req.path = "start" THEN [req EXCEPT !.pc = "done"]
              ELSE [req EXCEPT !.pc = "done", !.raised = ~ok,
                               !.response = IF ok THEN Response("sent", NoKeyboard)
                                            ELSE NoResponse]
    /\ chat' = IF Iterable(req.msg_ids) /\ req.path = "retry" /\ ok
               THEN NoKeyboard ELSE chat
    /\ UNCHANGED << codec, lookup >>
    /\ UNCHANGED << dumpVars, hookVars >>

RetrNext ==
    \/ \E t \in RequestTokens : StartCommand(t)
    \/ \E ok \in BOOLEAN : StartNoArgs(ok)
    \/ RetryClick
    \/ \E ok \in BOOLEAN : CallbackAnswer(ok)
    \/ ParseToken
    \/ \E ok \in BOOLEAN : InvalidReply(ok)
    \/ \E outcomes \in [1..2 -> LookupOutcomes] : GateCheck(outcomes)
    \/ \E ok1, ok2, ok \in BOOLEAN : BlockedReply(ok1, ok2, ok)
    \/ \E ok, rok \in BOOLEAN : DeliverCopy(ok, rok)
    \/ \E ok \in BOOLEAN : DeliverEnd(ok)

(***************************************************************************)
(* Uploads: process_file_messages and process_media_group                  *)
(*                                                                         *)
(* Every upload message is handled by its own thread (the web server       *)
(* serves requests concurrently), and every timer runs process_media_group *)
(* on a thread of its own.  The steps below are the points where a thread  *)
(* reads or writes what the others share: media_group_dict, the list       *)
(* objects in it, and the dump channel.                                    *)
(***************************************************************************)

\* Upload messages handled in one run.
NumUploads == 2

Uploads == 1..NumUploads

\* The id of upload u in the admin's chat.  Handlers may start in any order,
\* so arrival order and id order are independent.
message_id(u) == 39 + u

\* The id the dump channel gives to its n-th message.
copied_message_id(n) == 100 + n

\* All grouped uploads of a run carry this media group id.
mgid == "album"

\* dispatcher.process_update, had it let a handler's exception through.
process_update_raising(raised) == raised

\* Line 203: whether an exception raised by the handler leaves
\* dispatcher.process_update.  The dispatcher catches every Exception of a
\* handler and logs it (no error handler is registered), so none does.
process_update(raised) == FALSE

\* Lines 200-204: what the webhook route answers: "OK" once process_update
\* has returned, the server's error page when an exception left the view.
webhook_handler(escaped) == IF escaped THEN "500" ELSE "OK"

\* `late` records that a timer had fired before the message was appended;
\* `response` is what the webhook request that carried the upload answered.
NoHandler ==
    [pc |-> "new", kind |-> "none", raised |-> FALSE, late |-> FALSE, response |-> "none"]

NoFlush ==
    [pc |-> "none", messages |-> 0, collected |-> << >>, saved |-> << >>, savedMark |-> FALSE,
     i |-> 0, tried |-> << >>, dumped_ids |-> << >>, raised |-> FALSE,
     replied |-> FALSE]

NoList == [items |-> << >>, mark |-> FALSE]

DumpInit ==
    /\ handler = [u \in Uploads |-> NoHandler]
    /\ flush = [u \in Uploads |-> NoFlush]
    /\ media_group_dict = [g \in {mgid} |-> 0]
    /\ lists = [u \in Uploads |-> NoList]
    /\ dump = << >>
    /\ links = {}

\* A link as replied: the token text, and what it was generated from.
Link(file_type, ids, by, to) ==
    [token |-> generate_token(file_type, PyList([k \in 1..Len(ids) |-> PyInt(ids[k])])),
     file_type |-> file_type, ids |-> ids, by |-> by, to |-> to]

\* The handler's record once it has returned or raised.
Handled(kind, raised) ==
    [pc |-> "done", kind |-> kind, raised |-> raised, late |-> FALSE,
     response |-> webhook_handler(process_update(raised))]

\* process_file_messages, had it looked at the media group id before the
\* sender: a grouped upload of somebody who is no admin opens an entry.
RejectUploadAfterGroup(u, grouped, ok) ==
    /\ handler[u].pc = "new"
    /\ handler' = [handler EXCEPT ![u] =
           Handled(IF grouped THEN "foreign_grouped" ELSE "foreign", ~ok)]
    /\ media_group_dict' = IF grouped /\ media_group_dict[mgid] = 0
                           THEN [media_group_dict EXCEPT ![mgid] = u]
                           ELSE media_group_dict
    /\ UNCHANGED << flush, lists, dump, links >>
    /\ UNCHANGED << codecVars, retrVars, hookVars >>

\* Lines 94-96: an upload of somebody who is no admin, with a media group id
\* or without, is answered and dropped.  The answer may fail; the exception
\* leaves the handler.
RejectUpload(u, grouped, ok) ==
    /\ handler[u].pc = "new"
    /\ handler' = [handler EXCEPT ![u] =
           Handled(IF grouped THEN "foreign_grouped" ELSE "foreign", ~ok)]
    /\ UNCHANGED << flush, media_group_dict, lists, dump, links >>
    /\ UNCHANGED << codecVars, retrVars, hookVars >>

\* The single upload, had it put the id of the original message in the token.
SingleUploadOriginalId(u, cok, rok) ==
    /\ handler[u].pc = "new"
    /\ handler' = [handler EXCEPT ![u] = Handled("single", ~(cok /\ rok))]
    /\ dump' = IF cok THEN Append(dump, u) ELSE dump
    /\ links' = IF cok /\ rok
                THEN links \cup {Link(KindSingle, << message_id(u) >>, << "single", u >>, u)}
                ELSE links
    /\ UNCHANGED << flush, media_group_dict, lists >>
    /\ UNCHANGED << codecVars, retrVars, hookVars >>

\* Lines 99-105: an admin's upload outside a media group is copied and its
\* link replied at once.  A failing copy raises before anything is recorded;
\* a failing reply raises after the copy is made.
SingleUpload(u, cok, rok) ==
    /\ handler[u].pc = "new"
    /\ handler' = [handler EXCEPT ![u] = Handled("single", ~(cok /\ rok))]
    /\ dump' = IF cok THEN Append(dump, u) ELSE dump
    /\ links' = IF cok /\ rok
                THEN links \cup {Link(KindSingle, << copied_message_id(Len(dump) + 1) >>, << "single", u >>, u)}
                ELSE links
    /\ UNCHANGED << flush, media_group_dict, lists >>
    /\ UNCHANGED << codecVars, retrVars, hookVars >>

\* Line 109: the membership test of an admin's grouped upload.
GroupCheck(u) ==
    /\ handler[u].pc = "new"
    /\ handler' = [handler EXCEPT ![u] =
           [pc |-> IF media_group_dict[mgid] = 0 THEN "create" ELSE "append",
            kind |-> "grouped", raised |-> FALSE, late |-> FALSE, response |-> "none"]]
    /\ UNCHANGED << flush, media_group_dict, lists, dump, links >>
    /\ UNCHANGED << codecVars, retrVars, hookVars >>

\* Lines 110-111: a fresh list is stored under the group id, replacing
\* whatever is there, and a timer is started.
GroupCreate(u) ==
    /\ handler[u].pc = "create"
    /\ media_group_dict' = [media_group_dict EXCEPT ![mgid] = u]
    /\ lists' = [lists EXCEPT ![u] = NoList]
    /\ flush' = [flush EXCEPT ![u].pc = "scheduled"]
    /\ handler' = [handler EXCEPT ![u].pc = "append"]
    /\ UNCHANGED << dump, links >>
    /\ UNCHANGED << codecVars, retrVars, hookVars >>

\* Line 112: the message is appended to the list found under the group id
\* now; with no entry the subscript raises KeyError.
GroupAppend(u) ==
    /\ handler[u].pc = "append"
    /\ IF media_group_dict[mgid] = 0
       THEN /\ handler' = [handler EXCEPT ![u].pc = "done", ![u].raised = TRUE,
                                          ![u].response = webhook_handler(process_update(TRUE))]
            /\ UNCHANGED lists
       ELSE /\ handler' = [handler EXCEPT ![u].pc = "done",
                                          ![u].response = webhook_handler(process_update(FALSE)),
                                          ![u].late = \E f \in Uploads :
                                                          flush[f].pc \notin {"none", "scheduled"}]
            /\ lists' = [lists EXCEPT ![media_group_dict[mgid]] =
                   [items |-> Append(@.items, u), mark |-> FALSE]]
    /\ UNCHANGED << flush, media_group_dict, dump, links >>
    /\ UNCHANGED << codecVars, retrVars, hookVars >>

\* messages.sort, had it left the list in arrival order.
sort_arrival(messages) == messages

\* Line 118: messages.sort(key=lambda m: m.message_id), as the order it leaves.
RECURSIVE InsertById(_, _)
InsertById(u, s) ==
    IF s = << >> THEN << u >>
    ELSE IF message_id(u) < message_id(Head(s)) THEN << u >> \o s
    ELSE << Head(s) >> \o InsertById(u, Tail(s))

RECURSIVE sort(_)
sort(messages) ==
    IF messages = << >> THEN << >>
    ELSE InsertById(messages[Len(messages)], sort(SubSeq(messages, 1, Len(messages) - 1)))

\* Lines 115-117: the timer fires; with no entry, or an entry whose list looks
\* empty, the run returns and leaves the dict alone.
FlushGet(f) ==
    /\ flush[f].pc = "scheduled"
    /\ flush' = [flush EXCEPT ![f].messages = media_group_dict[mgid],
                              ![f].pc = IF \/ media_group_dict[mgid] = 0
                                           \/ lists[media_group_dict[mgid]].items = << >>
                                        THEN "done" ELSE "sort"]
    /\ UNCHANGED << handler, media_group_dict, lists, dump, links >>
    /\ UNCHANGED << codecVars, retrVars, hookVars >>

\* Line 118, entering list.sort: the list is emptied for the time of the
\* sort and marked; any mutation clears the mark.  A list that looks empty
\* is left as it is, and no key function runs.
FlushSortBegin(f) ==
    /\ flush[f].pc = "sort"
    /\ IF lists[flush[f].messages].items = << >>
       THEN /\ flush' = [flush EXCEPT ![f].pc = "loop", ![f].i = 1]
            /\ UNCHANGED lists
       ELSE /\ flush' = [flush EXCEPT ![f].pc = "sorting",
                                      ![f].collected = lists[flush[f].messages].items,
                                      ![f].saved = sort(lists[flush[f].messages].items),
                                      ![f].savedMark = lists[flush[f].messages].mark]
            /\ lists' = [lists EXCEPT ![flush[f].messages] = [items |-> << >>, mark |-> TRUE]]
    /\ UNCHANGED << handler, media_group_dict, dump, links >>
    /\ UNCHANGED << codecVars, retrVars, hookVars >>

\* Line 118, leaving list.sort: the sorted items are put back, whatever the
\* list holds by now is dropped, and a list found modified raises ValueError.
FlushSortEnd(f) ==
    /\ flush[f].pc = "sorting"
    /\ lists' = [lists EXCEPT ![flush[f].messages] =
           [items |-> flush[f].saved, mark |-> flush[f].savedMark]]
    /\ flush' = IF lists[flush[f].messages].mark
                THEN [flush EXCEPT ![f].pc = "loop", ![f].i = 1]
                ELSE [flush EXCEPT ![f].pc = "done", ![f].raised = TRUE]
    /\ UNCHANGED << handler, media_group_dict, dump, links >>
    /\ UNCHANGED << codecVars, retrVars, hookVars >>

\* The loop body, had a failing copy ended the loop.
CopyOutcomeAbort(fl, msg, ok, id) ==
    IF ok
    THEN [fl EXCEPT !.i = @ + 1,
                    !.tried = Append(@, [msg |-> msg, ok |-> ok]),
                    !.dumped_ids = Append(@, id)]
    ELSE [fl EXCEPT !.pc = "reply", !.tried = Append(@, [msg |-> msg, ok |-> ok])]

\* Lines 121-127: one pass of the loop body.  A copy that fails is logged
\* and the loop goes on.
CopyOutcome(fl, msg, ok, id) ==
    [fl EXCEPT !.i = @ + 1,
               !.tried = Append(@, [msg |-> msg, ok |-> ok]),
               !.dumped_ids = IF ok THEN Append(@, id) ELSE @]

\* Lines 120-127: the iterator yields the item at its index in the list as
\* it is now.
FlushCopy(f, ok) ==
    /\ flush[f].pc = "loop"
    /\ flush[f].i <= Len(lists[flush[f].messages].items)
    /\ flush' = [flush EXCEPT ![f] =
           CopyOutcome(@, lists[flush[f].messages].items[flush[f].i], ok,
                       copied_message_id(Len(dump) + 1))]
    /\ dump' = IF ok THEN Append(dump, lists[flush[f].messages].items[flush[f].i]) ELSE dump
    /\ UNCHANGED << handler, media_group_dict, lists, links >>
    /\ UNCHANGED << codecVars, retrVars, hookVars >>

\* Line 120: the iterator finds its index past the end of the list.
FlushLoopEnd(f) ==
    /\ flush[f].pc = "loop"
    /\ flush[f].i > Len(lists[flush[f].messages].items)
    /\ flush' = [flush EXCEPT ![f].pc = "reply"]
    /\ UNCHANGED << handler, media_group_dict, lists, dump, links >>
    /\ UNCHANGED << codecVars, retrVars, hookVars >>

\* Line 128.
file_type_of(dumped_ids) == IF Len(dumped_ids) > 1 THEN KindBatch ELSE KindSingle

\* Lines 128-133: the link is replied to the last message of the list as it
\* is now.  An empty list, or a reply that fails, is logged.
FlushReply(f, ok) ==
    /\ flush[f].pc = "reply"
    /\ lists[flush[f].messages].items = << >> => ok
    /\ flush' = [flush EXCEPT ![f].pc = "pop",
                              ![f].replied = ok /\ lists[flush[f].messages].items # << >>]
    /\ links' = IF ok /\ lists[flush[f].messages].items # << >>
                THEN links \cup {Link(file_type_of(flush[f].dumped_ids), flush[f].dumped_ids,
                                        << "group", f >>,
                                        lists[flush[f].messages].items[Len(lists[flush[f].messages].items)])}
                ELSE links
    /\ UNCHANGED << handler, media_group_dict, lists, dump >>
    /\ UNCHANGED << codecVars, retrVars, hookVars >>

\* Line 134: whatever is stored under the group id is removed.
FlushPop(f) ==
    /\ flush[f].pc = "pop"
    /\ media_group_dict' = [media_group_dict EXCEPT ![mgid] = 0]
    /\ flush' = [flush EXCEPT ![f].pc = "done"]
    /\ UNCHANGED << handler, lists, dump, links >>
    /\ UNCHANGED << codecVars, retrVars, hookVars >>

Next ==
    \/ \E u \in Uploads, grouped, ok \in BOOLEAN : RejectUpload(u, grouped, ok)
    \/ \E u \in Uploads, cok, rok \in BOOLEAN : SingleUpload(u, cok, rok)
    \/ \E u \in Uploads : GroupCheck(u)
    \/ \E u \in Uploads : GroupCreate(u)
    \/ \E u \in Uploads : GroupAppend(u)
    \/ \E f \in Uploads : FlushGet(f)
    \/ \E f \in Uploads : FlushSortBegin(f)
    \/ \E f \in Uploads : FlushSortEnd(f)
    \/ \E f \in Uploads, ok \in BOOLEAN : FlushCopy(f, ok)
    \/ \E f \in Uploads : FlushLoopEnd(f)
    \/ \E f \in Uploads, ok \in BOOLEAN : FlushReply(f, ok)
    \/ \E f \in Uploads : FlushPop(f)

(***************************************************************************)
(* Webhook registration: set_webhook (src/setup_webhook.py)                *)
(***************************************************************************)

\* Calls of set_webhook the model follows; the code itself sets no limit.
MaxAttempts == 3

\* The admins notify_admins writes to, in the order of the setting.
ADMIN_IDS == << "admin1", "admin2" >>

\* What a call of the Bot API does in set_webhook: it returns, or raises
\* RetryAfter (flood control), another TelegramError, or another Exception.
ApiOutcomes == {"ok", "RetryAfter", "TelegramError", "Exception"}

\* The script not started.
HookOff == [pc |-> "off", attempts |-> 0, log |-> << >>, text |-> "none", i |-> 0, notified |-> {}]

\* Line 54: the script calls set_webhook().
WebhookInit == hook = [HookOff EXCEPT !.pc = "info", !.attempts = 1]

\* Where the except clauses of lines 42-51 lead, and the log line they write.
Caught(h, outcome) ==
    IF outcome = "RetryAfter"
    THEN [h EXCEPT !.pc = "sleep", !.log = Append(@, "flood")]
    ELSE IF outcome = "TelegramError"
    THEN [h EXCEPT !.pc = "notify", !.i = 1, !.text = "failed", !.log = Append(@, "failed")]
    ELSE [h EXCEPT !.pc = "notify", !.i = 1, !.text = "unexpected", !.log = Append(@, "unexpected")]

\* Lines 32-37: bot.get_webhook_info().url and its comparison with WEBHOOK_URL.
get_webhook_info(outcome, same) ==
    /\ hook.pc = "info"
    /\ outcome # "ok" => same
    /\ hook' = IF outcome # "ok" THEN Caught(hook, outcome)
               ELSE IF same THEN [hook EXCEPT !.pc = "notify", !.i = 1, !.text = "already set",
                                              !.log = Append(@, "already set")]
               ELSE [hook EXCEPT !.pc = "delete", !.log = Append(@, "setting")]
    /\ UNCHANGED << codecVars, retrVars, dumpVars >>

\* Line 38: bot.delete_webhook().
delete_webhook(outcome) ==
    /\ hook.pc = "delete"
    /\ hook' = IF outcome # "ok" THEN Caught(hook, outcome)
               ELSE [hook EXCEPT !.pc = "set"]
    /\ UNCHANGED << codecVars, retrVars, dumpVars >>

\* Lines 39-40: bot.set_webhook(url=WEBHOOK_URL).
bot_set_webhook(outcome) ==
    /\ hook.pc = "set"
    /\ hook' = IF outcome # "ok" THEN Caught(hook, outcome)
               ELSE [hook EXCEPT !.pc = "notify", !.i = 1, !.text = "set", !.log = Append(@, "set")]
    /\ UNCHANGED << codecVars, retrVars, dumpVars >>

\* Lines 23-28 (called at 35, 41, 48, 51), one turn of the loop: the next
\* admin is written to; a send_message that raises is logged.  After the
\* last admin set_webhook returns, and with it every call of set_webhook
\* that waits for this one.
notify_admins(ok) ==
    /\ hook.pc = "notify"
    /\ hook' = [hook EXCEPT
                  !.notified = IF ok THEN @ \cup {ADMIN_IDS[hook.i]} ELSE @,
                  !.log = IF ok THEN @ ELSE Append(@, "not notified"),
                  !.i = @ + 1,
                  !.pc = IF hook.i = Len(ADMIN_IDS) THEN "returned" ELSE "notify"]
    /\ UNCHANGED << codecVars, retrVars, dumpVars >>

\* Lines 43-45: time.sleep(e.retry_after), then set_webhook() again.
set_webhook ==
    /\ hook.pc = "sleep"
    /\ hook.attempts < MaxAttempts
    /\ hook' = [hook EXCEPT !.pc = "info", !.attempts = @ + 1]
    /\ UNCHANGED << codecVars, retrVars, dumpVars >>

NextWebhook ==
    \/ \E outcome \in ApiOutcomes, same \in BOOLEAN : get_webhook_info(outcome, same)
    \/ \E outcome \in ApiOutcomes : delete_webhook(outcome)
    \/ \E outcome \in ApiOutcomes : bot_set_webhook(outcome)
    \/ \E ok \in BOOLEAN : notify_admins(ok)
    \/ set_webhook

(***************************************************************************)
(* Specifications                                                          *)
(***************************************************************************)

RetrOff ==
    /\ lookup = NoLookup
    /\ req = IdleReq
    /\ chat = NoKeyboard

InitCodec == CodecInit /\ RetrOff /\ DumpInit /\ hook = HookOff

NextCodec == Generate \/ Parse

\* The codec alone, on every input.
SpecCodec == InitCodec /\ [][NextCodec]_vars

InitRetrieve == RetrInit /\ codec = CodecOff /\ DumpInit /\ hook = HookOff

\* Retrieval requests of one requester, one after the other.
SpecRetrieve == InitRetrieve /\ [][RetrNext]_vars

Init == DumpInit /\ RetrOff /\ codec = CodecOff /\ hook = HookOff

\* Uploads of one run, handled concurrently.
Spec == Init /\ [][Next]_vars

InitWebhook == WebhookInit /\ DumpInit /\ RetrOff /\ codec = CodecOff

\* One run of setup_webhook.py.
SpecWebhook == InitWebhook /\ [][NextWebhook]_vars

(***************************************************************************)
(* Properties of the token codec (SpecCodec)                               *)
(***************************************************************************)

\* C3: for every kind (single or batch) and every non-empty ordered sequence
\* of message identifiers, parse_token(generate_token(kind, ids)) returns
\* exactly (kind, ids), the identifiers in the same order.
C3_RoundTrip ==
    (codec.origin = "pair" /\ codec.pc = "parsed" /\ codec.msg_ids.v # << >>) =>
        /\ ~codec.result.raised
        /\ codec.result.file_type = codec.file_type
        /\ codec.result.msg_ids = codec.msg_ids

\* A batch of two identifiers, the larger first, has made the round trip.
C3_Witness ==
    /\ codec.origin = "pair"
    /\ codec.pc = "parsed"
    /\ codec.file_type = KindBatch
    /\ Len(codec.msg_ids.v) = 2
    /\ codec.msg_ids.v[1].v > codec.msg_ids.v[2].v
    /\ codec.result.msg_ids = codec.msg_ids

\* Whether generate_token produces `token`: it parses to a kind and a list
\* of identifiers that generate_token turns into the very same text.
ProducedByEncode(token, parsed) ==
    /\ ~parsed.raised
    /\ parsed.file_type \in {KindSingle, KindBatch}
    /\ parsed.msg_ids.k = "list"
    /\ generate_token(parsed.file_type, parsed.msg_ids) = token

\* C4: parse_token on any string generate_token did not produce (truncated,
\* outside the alphabet, or a valid encoding of a value without the required
\* fields, a bare number or a string among them) returns (None, None) and
\* never raises.
C4_AbsentNeverRaises ==
    (/\ codec.origin = "raw"
     /\ codec.pc = "parsed"
     /\ ~ProducedByEncode(codec.token, codec.result)) =>
        codec.result = Returned(PyNone, PyNone)

(***************************************************************************)
(* Properties of the retrieval workflow (SpecRetrieve)                     *)
(***************************************************************************)

\* A retrieval request: a /start with a payload, or a press of retry.
IsRetrieval == req.path = "retry" \/ (req.path = "start" /\ req.token # << >>)

\* The identifiers copied, or tried to be copied, to the requester so far.
Attempted == [k \in 1..Len(req.sent) |-> req.sent[k].mid]

\* C1: every retrieval request, on the start path and on the retry path, ends
\* in exactly one of INVALID, BLOCKED, ALLOWED, and a message is copied to
\* the requester only in ALLOWED: after the token decoded to a kind and ids
\* and the gate check of that same request returned true.
C1_ExactlyOneOutcome ==
    /\ (req.pc = "done" /\ IsRetrieval) =>
           \E c \in {"INVALID", "BLOCKED", "ALLOWED"} : req.classes = {c}
    /\ req.sent # << >> =>
           /\ req.classes = {"ALLOWED"}
           /\ req.gate = "pass"
           /\ Truthy(req.file_type) /\ Truthy(req.msg_ids)

\* The part of C1 about copies alone: no copy is made or tried in a request
\* that is not ALLOWED, whose token did not decode or whose gate check failed.
CopyOnlyWhenAllowed ==
    req.sent # << >> =>
        /\ req.classes = {"ALLOWED"}
        /\ req.gate = "pass"
        /\ req.decoded
        /\ Truthy(req.file_type) /\ Truthy(req.msg_ids)

\* Membership as the gate is to see it: the lookup succeeded with a status
\* of member, administrator or owner ("creator").
ActiveMember(o) == ~o.raised /\ o.status \in {"member", "administrator", "creator"}

\* C2: the gate check returns true if and only if the lookups for channel 1
\* and channel 2 both succeed with a status of member, administrator or
\* owner; a lookup that errors counts as not-a-member and raises nothing
\* in the handler; a requester who passes channel 1 only is BLOCKED.
C2_GateIffBothActive ==
    req.gate # "unchecked" =>
        /\ (req.gate = "pass") <=> (ActiveMember(lookup[1]) /\ ActiveMember(lookup[2]))
        /\ (req.gate = "pass") => req.classes = {"ALLOWED"}
        /\ (req.gate = "fail") => req.classes = {"BLOCKED"}
        /\ req.pc \in {"deliver", "blocked"} => ~req.raised

\* The requester is active on channel 1, the lookup for channel 2 raised,
\* and the request is BLOCKED.
C2_Witness ==
    /\ req.gate = "fail"
    /\ ActiveMember(lookup[1])
    /\ lookup[2].raised
    /\ req.pc = "blocked"
    /\ req.classes = {"BLOCKED"}

\* C9: in ALLOWED, on both paths, each identifier of the token's ids is tried
\* for copy exactly once and in list order; a failed delivery is reported
\* inline and every later identifier is still tried.
C9_EveryIdAttempted ==
    (req.pc = "done" /\ "ALLOWED" \in req.classes /\ req.msg_ids.k = "list") =>
        /\ Attempted = req.msg_ids.v
        /\ ~req.raised => req.reports = Cardinality({k \in 1..Len(req.sent) : ~req.sent[k].ok})

\* C10: whenever a request ends BLOCKED, on the start path or the retry path,
\* the response shown carries the two join links (the invite link, or the
\* placeholder when it could not be made) and a retry button with the same
\* token, so the requester still holds a retry button after it.
C10_BlockedKeepsRetry ==
    (req.pc = "done" /\ "BLOCKED" \in req.classes /\ req.response.sent) =>
        /\ req.response.kb.shown
        /\ req.response.kb.join1 \in {"invite1", "#"}
        /\ req.response.kb.join2 \in {"invite2", "#"}
        /\ req.response.kb.retry = RetryPrefix \o req.token
        /\ chat = req.response.kb

(***************************************************************************)
(* Properties of the upload workflow (Spec)                                *)
(***************************************************************************)

\* The messages flush f has tried to copy, in the order tried.
TriedMsgs(f) == [k \in 1..Len(flush[f].tried) |-> flush[f].tried[k].msg]

\* Those of them whose copy succeeded.
CopiedMsgs(f) ==
    LET done == SelectSeq(flush[f].tried, LAMBDA e : e.ok)
    IN  [k \in 1..Len(done) |-> done[k].msg]

\* The message the dump channel holds under identifier id (0: none).
Archived(id) ==
    IF \E n \in 1..Len(dump) : copied_message_id(n) = id
    THEN dump[CHOOSE n \in 1..Len(dump) : copied_message_id(n) = id]
    ELSE 0

\* Flush f has left its loop.
LoopOver(f) == flush[f].pc \in {"reply", "pop"}

\* Nothing but flush f has touched its list since f sorted it: the list
\* holds what the sort left, and no other flush works on it.
Quiet(f) ==
    /\ lists[flush[f].messages].items = flush[f].saved
    /\ \A g \in Uploads \ {f} : flush[g].messages # flush[f].messages

\* The links flush f has replied.
LinksOf(f) == {l \in links : l.by = << "group", f >>}

\* C5: whatever order the messages of a media group arrived in, the flush
\* archives the collected messages in ascending order of original message
\* identifier, and the ids of its token are the dump-channel identifiers of
\* those copies in that order, of kind batch when more than one was archived.
C5_SortedArchive ==
    \A f \in Uploads :
        (LoopOver(f) /\ Quiet(f)) =>
            /\ \A j, k \in 1..Len(flush[f].tried) :
                   j < k => message_id(flush[f].tried[j].msg) < message_id(flush[f].tried[k].msg)
            /\ {flush[f].tried[k].msg : k \in 1..Len(flush[f].tried)}
                   = {flush[f].collected[k] : k \in 1..Len(flush[f].collected)}
            /\ [k \in 1..Len(flush[f].dumped_ids) |-> Archived(flush[f].dumped_ids[k])]
                   = CopiedMsgs(f)
            /\ \A l \in LinksOf(f) :
                   /\ l.ids = flush[f].dumped_ids
                   /\ Len(l.ids) > 1 => l.file_type = KindBatch
                   /\ parse_token(l.token) = Returned(l.file_type, IdList(l.ids))

\* Two messages were collected with the larger identifier first, both were
\* archived, and the batch link was replied.
C5_Witness ==
    \E f \in Uploads :
        /\ flush[f].pc = "pop"
        /\ Quiet(f)
        /\ Len(flush[f].collected) = 2
        /\ message_id(flush[f].collected[1]) > message_id(flush[f].collected[2])
        /\ Len(flush[f].dumped_ids) = 2
        /\ \E l \in LinksOf(f) : l.file_type = KindBatch

\* Upload u was appended to a list of media_group_dict.
Appended(u) == handler[u].kind = "grouped" /\ handler[u].pc = "done" /\ ~handler[u].raised

\* No handler is at work and no flush is due or at work.
Quiescent ==
    /\ \A u \in Uploads : handler[u].pc \in {"new", "done"}
    /\ \A f \in Uploads : flush[f].pc \in {"none", "done"}

\* The uploads that carry the media group id.
Grouped == {u \in Uploads : handler[u].kind = "grouped"}

\* C6: two concurrent appends to the same pending media group, both being
\* the first arrival included, followed by the flush, deliver exactly one
\* token that covers every message appended: no second token is emitted for
\* the group and no appended message's entry is lost.
C6_OneTokenNoLoss ==
    (/\ Quiescent
     /\ Cardinality(Grouped) >= 2
     /\ \A u \in Grouped : Appended(u) /\ ~handler[u].late) =>
        /\ \E f \in Uploads : \A u \in Grouped :
               \E k \in 1..Len(flush[f].tried) : flush[f].tried[k].msg = u
        /\ Cardinality({l \in links : l.by[1] = "group"}) <= 1

\* C7: every token the upload workflow emits in a link, from a single upload
\* or from a flush, whichever copies failed, has a non-empty ids list, and
\* its kind is single if and only if exactly one identifier was dumped.
C7_NonEmptyIds ==
    \A l \in links :
        /\ Len(l.ids) >= 1
        /\ (l.file_type = KindSingle) <=> (Len(l.ids) = 1)

\* C8: in a flush, a copy that fails concerns that message alone: every
\* member of the group is tried, each one whose copy succeeded is archived,
\* and the ids of the token are exactly the dump-channel identifiers of the
\* successful copies, none standing for a failed one.
C8_FailureIsolated ==
    \A f \in Uploads :
        (LoopOver(f) /\ Quiet(f)) =>
            /\ TriedMsgs(f) = lists[flush[f].messages].items
            /\ Len(flush[f].dumped_ids) = Len(CopiedMsgs(f))
            /\ \A k \in 1..Len(flush[f].dumped_ids) :
                   /\ Archived(flush[f].dumped_ids[k]) = CopiedMsgs(f)[k]
                   /\ \A j \in 1..Len(flush[f].tried) :
                          ~flush[f].tried[j].ok =>
                              Archived(flush[f].dumped_ids[k]) # flush[f].tried[j].msg
            /\ \A l \in LinksOf(f) : l.ids = flush[f].dumped_ids

\* The first copy of a group of two failed, the second was made, and the
\* link replied names the second copy alone.
C8_Witness ==
    \E f \in Uploads :
        /\ flush[f].pc = "pop"
        /\ Quiet(f)
        /\ Len(flush[f].tried) = 2
        /\ ~flush[f].tried[1].ok
        /\ flush[f].tried[2].ok
        /\ \E l \in LinksOf(f) : Len(l.ids) = 1 /\ Archived(l.ids[1]) = flush[f].tried[2].msg

\* The step of upload u's handler from its start to its end, as kind `kind`.
Handles(u, kind) == handler[u].pc = "new" /\ handler'[u].pc = "done" /\ handler'[u].kind = kind

\* C11: an upload of a user outside the admin set, with a media group id or
\* without, causes the rejection reply and nothing else: nothing is copied to
\* the dump channel, media_group_dict and its lists stay as they are, no
\* timer is started and no link is emitted.
C11_RejectionOnly ==
    [][\A u \in Uploads :
          (handler[u].pc = "new" /\ handler'[u].kind \in {"foreign", "foreign_grouped"}) =>
              /\ handler'[u].pc = "done"
              /\ UNCHANGED << flush, media_group_dict, lists, dump, links >>]_vars

\* A grouped upload of a non-admin was rejected while an admin's group of the
\* same id was pending, and the pending list holds the admin's message alone.
C11_Witness ==
    \E u, a \in Uploads :
        /\ handler[u].kind = "foreign_grouped"
        /\ handler[u].pc = "done"
        /\ ~handler[u].raised
        /\ media_group_dict[mgid] = a
        /\ lists[a].items = << a >>
        /\ flush[u].pc = "none"

\* C12: a single, non-grouped admin upload is archived within its own
\* request and yields exactly one link, of kind single, with exactly one id:
\* the id of the copy just made in the dump channel, not the id of the
\* original; media_group_dict is not touched.
C12_SingleUploadLink ==
    [][\A u \in Uploads :
          Handles(u, "single") =>
              /\ UNCHANGED << flush, media_group_dict, lists >>
              /\ handler'[u].raised => links' \subseteq links
              /\ ~handler'[u].raised =>
                     /\ dump' = Append(dump, u)
                     /\ \E l \in links' :
                            /\ links' = links \cup {l}
                            /\ l \notin links
                            /\ l.file_type = KindSingle
                            /\ l.ids = << copied_message_id(Len(dump')) >>
                            /\ l.ids[1] # message_id(u)
                            /\ parse_token(l.token) = Returned(KindSingle, IdList(l.ids))]_vars

\* A single upload was archived as the second message of the dump channel
\* and its link names that copy.
C12_Witness ==
    \E u \in Uploads :
        /\ handler[u].kind = "single"
        /\ handler[u].pc = "done"
        /\ ~handler[u].raised
        /\ Len(dump) >= 2
        /\ dump[2] = u
        /\ \E l \in links : l.by = << "single", u >> /\ l.ids = << copied_message_id(2) >>

C13_AtMostTwoAttempts ==
    /\ hook.attempts <= 2
    /\ (hook.attempts = 2 /\ hook.pc = "sleep") => ~ENABLED set_webhook

(***************************************************************************)
(* Properties of the pending table and its flush callbacks (Spec)          *)
(***************************************************************************)

\* The flush callbacks that are scheduled or running.
LiveFlushes == {f \in Uploads : flush[f].pc \notin {"none", "done"}}

\* C15: the flush callback is one-shot per pending entry: a timer is started
\* exactly when an entry is created, a message for a pending group only
\* appends, and in every reachable state at most one flush callback of the
\* group is scheduled or running.
C15_OneFlushPerGroup ==
    /\ Cardinality(LiveFlushes) <= 1
    /\ \A u \in Uploads : flush[u].pc # "none" => handler[u].kind = "grouped"

\* An upload sits in the list stored under the group id.
Pending(u) ==
    /\ media_group_dict[mgid] # 0
    /\ \E k \in DOMAIN lists[media_group_dict[mgid]].items :
           lists[media_group_dict[mgid]].items[k] = u

\* A flush callback that will still go through the list stored under the group id.
WillFlushEntry(f) ==
    \/ flush[f].pc = "scheduled"
    \/ f \in LiveFlushes /\ flush[f].messages = media_group_dict[mgid]

\* C16: every pending entry is flushed and deleted: once its flush callback
\* has returned the table holds no entry for the list the callback was
\* given (an empty list included), and no appended message sits in an
\* entry that no callback will flush.
C16_EntryDeletedAfterFlush ==
    /\ \A f \in Uploads :
           (flush[f].pc = "done" /\ flush[f].messages # 0)
               => media_group_dict[mgid] # flush[f].messages
    /\ \A u \in Uploads :
           (Pending(u) /\ handler[u].pc = "done") => \E f \in Uploads : WillFlushEntry(f)

\* Flush f has been given its list and has not yet removed the entry.
Flushing(f) == flush[f].pc \in {"sort", "sorting", "loop", "reply", "pop"}

\* Some flush has tried to archive upload u.
TriedBySome(u) == \E g \in Uploads : \E k \in 1..Len(flush[g].tried) : flush[g].tried[k].msg = u

\* C17: insert, append and the flush's remove-and-read are mutually
\* exclusive: from the moment a flush has been given a list no handler
\* appends to that list, and the removal of an entry discards no message
\* that no flush has tried to archive.
C17_FlushExclusive ==
    [][/\ \A f, u \in Uploads :
              (/\ Flushing(f)
               /\ handler[u].pc = "append"
               /\ handler'[u].pc = "done"
               /\ ~handler'[u].raised) => media_group_dict[mgid] # flush[f].messages
       /\ \A f \in Uploads :
              (/\ flush[f].pc = "pop"
               /\ flush'[f].pc = "done"
               /\ media_group_dict[mgid] # 0) =>
                  \A k \in DOMAIN lists[media_group_dict[mgid]].items :
                      TriedBySome(lists[media_group_dict[mgid]].items[k])]_vars

\* How many copies of upload u the dump channel holds.
CopiesOf(u) == Cardinality({n \in 1..Len(dump) : dump[n] = u})

\* The links whose token carries a copy of upload u.
LinksWith(u) == {l \in links : \E k \in 1..Len(l.ids) : Archived(l.ids[k]) = u}

\* C19: at-most-once archival: under any interleaving of handlers and flush
\* callbacks every original message has at most one copy in the dump
\* channel and appears in at most one emitted token.
C19_ArchivedAtMostOnce ==
    \A u \in Uploads :
        /\ CopiesOf(u) <= 1
        /\ Cardinality(LinksWith(u)) <= 1

(***************************************************************************)
(* Properties that join the upload workflow and the retrieval (Spec)       *)
(***************************************************************************)

\* Lines 144-147 of start_command: the parse returned, and neither the kind
\* nor the identifiers are falsy.
ClassifiedValid(r) == ~r.raised /\ Truthy(r.file_type) /\ Truthy(r.msg_ids)

\* C20: every link emitted is retrievable: the token of every link reply of
\* the upload workflow, whatever copies failed, is classified VALID by a
\* later retrieval and carries at least one identifier to deliver; it is
\* never answered as an invalid or expired link.
C20_LinksRetrievable ==
    \A l \in links : ClassifiedValid(parse_token(l.token))

(***************************************************************************)
(* The two retrieval paths compared (SpecRetrieve)                         *)
(***************************************************************************)

\* The token the button of line 156 was built from: its data without "retry:".
ButtonToken == SubSeq(req.data, Len(RetryPrefix) + 1, Len(req.data))

\* Two parses are classified alike and, when valid, carry the same identifiers.
SameOutcome(s, r) ==
    /\ ClassifiedValid(s) <=> ClassifiedValid(r)
    /\ s.raised <=> r.raised
    /\ ClassifiedValid(s) => s.msg_ids = r.msg_ids

\* C18: the start path and the retry path share their decode and gate
\* logic: for the same token, requester and memberships the retry click
\* classifies the token as start_command does, and when allowed delivers
\* the same identifiers in the same order.
C18_PathsAgree ==
    (req.path = "retry" /\ req.decoded) =>
        SameOutcome(parse_token(ButtonToken), parse_token(req.token))

====
